---- MODULE Spec2Model ----
(***************************************************************************)
(* Order-lifecycle orchestrator of devdeep-arch/automation.                *)
(*                                                                         *)
(* The model follows src/unnamed/part_000 (the consolidated server file):  *)
(* the Firebase document store (stores/{storeId}/orders/{orderId},         *)
(* stores/{storeId}/secrets, index/{shopUsername}), the three webhook      *)
(* handlers and the cron sweep.  Every handler is an async function; it is *)
(* modelled as a process that advances from one await to the next, with    *)
(* its local variables kept in its slot of procs.                          *)
(***************************************************************************)
EXTENDS Integers, Sequences, FiniteSets, TLC

(* ------------------------------ bounds --------------------------------- *)

\* number of inbound requests and cron ticks accepted in one behaviour
MaxEvents == 3

\* largest value Date.now() takes
MaxTime == 2

\* handler slots (async invocations that may be in progress at once)
NumSlots == 2

\* the strings given to normalizePhone: any MaxPrefix characters, followed by
\* up to MaxPad more digits
MaxPrefix == 3
MaxPad == 10

(* --------------------------- program constants ------------------------- *)

\* timeline.confirmedAt / fulfilledAt / deliveredAt of a new order hold the
\* placeholder "waiting"; it is modelled by a value no Date.now() returns
Waiting == 0

\* PAYLOADS
CONFIRM_ORDER == "CONFIRM_ORDER"
CANCEL_ORDER == "CANCEL_ORDER"

\* TPL (the template names the handlers pass to sendWhatsAppTemplate)
TPL_ORDER_CONFIRMATION == "order_confirmation"
TPL_ORDER_CONFIRMED_REPLY == "order_confirmed_reply"
TPL_ORDER_CANCELLED_REPLY_AUTO == "order_cancelled_reply_auto"
TPL_ORDER_DELIVERED == "order_delivered"
TPL_YOUR_ORDER_IS_SHIPPED == "your_order_is_shipped_2025"
TPL_CALL_US == "call_us_template"

\* DEFAULT_COUNTRY_CODE = "92", as a digit string
DEFAULT_COUNTRY_CODE == <<9, 2>>

(* ------------------------------ universe ------------------------------- *)

\* store ids, in the key order Firebase returns them (for ... in order)
StoreOrder == <<"s1", "s2">>
StoreIds == {StoreOrder[i] : i \in 1..Len(StoreOrder)}
\* the order ids the storefront uses, ascending
OrderOrder == <<1001>>
OrderIds == {OrderOrder[i] : i \in 1..Len(OrderOrder)}
Slots == 1..NumSlots

\* JS undefined, and the null a missing document reads as
Undefined == "undefined"
Null == [null |-> TRUE]

\* the null normalizePhone returns (no digit string is empty)
NoPhone == <<>>

\* a character that is not a digit ("+", "-", " ")
NonDigit == 10

\* raw phone strings found in inbound payloads (sequences of characters)
RawPhones == { <<>>, <<NonDigit>>, <<0, 3>>, <<NonDigit, 9, 2, 3>>, <<4>> }

\* the msg.from of inbound messages
FromPhones == { <<>>, <<9, 2, 3>>, <<NonDigit, 9, 2, 4>> }

Trackings == {"TRK1", "TRK2"}
CourierStatuses == {"Booked", "Out For Delivery", "Delivered"}

(* ------------------------------ helpers -------------------------------- *)

\* String(raw).replace(/\D/g, "")
RECURSIVE StripNonDigits(_)
StripNonDigits(s) ==
  IF s = <<>> THEN <<>>
  ELSE IF Head(s) \in 0..9 THEN <<Head(s)>> \o StripNonDigits(Tail(s))
  ELSE StripNonDigits(Tail(s))

\* d.startsWith(p)
StartsWith(d, p) == Len(d) >= Len(p) /\ SubSeq(d, 1, Len(p)) = p

\* normalizePhone without its d.startsWith(cc) test
normalizeNoPrefixTest(raw, cc) ==
  IF raw = <<>> THEN NoPhone
  ELSE LET d == StripNonDigits(raw) IN
    IF d = <<>> THEN NoPhone
    ELSE IF StartsWith(d, <<0>>) THEN cc \o Tail(d)
    ELSE IF Len(d) <= 10 THEN cc \o d
    ELSE d

normalizePhone(raw, cc) ==
  IF raw = <<>> THEN NoPhone
  ELSE LET d == StripNonDigits(raw) IN
    IF d = <<>> THEN NoPhone
    ELSE IF StartsWith(d, <<0>>) THEN cc \o Tail(d)
    ELSE IF StartsWith(d, cc) THEN d
    ELSE IF Len(d) <= 10 THEN cc \o d
    ELSE d

\* one key of a Firebase update: a child name, or a "a/b" path, with its value
RECURSIVE SetPath(_, _, _)
SetPath(doc, path, v) ==
  IF Len(path) = 1 THEN (path[1] :> v) @@ doc
  ELSE LET child == IF path[1] \in DOMAIN doc THEN doc[path[1]] ELSE <<>>
       IN (path[1] :> SetPath(child, Tail(path), v)) @@ doc

\* db.ref(p).update(d) on the document at p: every key of d is written, the
\* other children are kept
RECURSIVE dbUpdate(_, _)
dbUpdate(doc, patch) ==
  IF patch = <<>> THEN doc
  ELSE dbUpdate(SetPath(doc, patch[1][1], patch[1][2]), Tail(patch))

Has(doc, k) == k \in DOMAIN doc

(* ------------------------------- state --------------------------------- *)

VARIABLES
  orders,   \* stores/{storeId}/orders/{orderId}: <<storeId, orderId>> -> document
  secrets,  \* stores/{storeId}/secrets
  now,      \* the value Date.now() returns
  nEvents,  \* requests and cron ticks accepted so far
  mode,     \* "serial": a request arrives after the previous one has ended
  procs,    \* the handler invocations: slot -> local variables and position
  outbox    \* the templates handed to the WhatsApp API: <<storeId, orderId, template>> -> how often

vars == <<orders, secrets, now, nEvents, mode, procs, outbox>>

Idle == [kind |-> "idle", pc |-> "idle", log |-> <<>>]

\* a slot whose invocation has returned or thrown can take the next one
Ended(p) == p.pc \in {"idle", "done", "failed"}

\* the next invocation runs in the first free slot
FreeSlot(h) ==
  /\ Ended(procs[h])
  /\ \A g \in Slots : g < h => ~Ended(procs[g])

MayStart(h) ==
  /\ nEvents < MaxEvents
  /\ FreeSlot(h)
  /\ mode = "serial" => \A g \in Slots : Ended(procs[g])

\* one entry of an invocation's log of external effects
Eff(op, arg) == [op |-> op, arg |-> arg]

Did(p, op, arg) == \E i \in 1..Len(p.log) : p.log[i] = Eff(op, arg)

Count(p, op, arg) == Cardinality({i \in 1..Len(p.log) : p.log[i] = Eff(op, arg)})

\* dbGet(`stores/${storeId}/orders/${orderId}`)
dbGetOrder(sid, oid) ==
  IF <<sid, oid>> \in DOMAIN orders THEN orders[<<sid, oid>>] ELSE Null

\* dbGet(`stores/${storeId}/secrets`)
dbGetSecrets(sid) == IF sid \in DOMAIN secrets THEN secrets[sid] ELSE Null

\* the document a write to stores/{sid}/orders/{oid} starts from
DocAt(sid, oid) ==
  IF <<sid, oid>> \in DOMAIN orders THEN orders[<<sid, oid>>] ELSE <<>>

\* dbUpdate(`stores/${sid}/orders/${oid}`, patch)
dbUpdateOrder(sid, oid, patch) ==
  orders' = (<<sid, oid>> :> dbUpdate(DocAt(sid, oid), patch)) @@ orders

\* dbSet(`stores/${sid}/orders/${oid}`, doc)
dbSetOrder(sid, oid, doc) == orders' = (<<sid, oid>> :> doc) @@ orders

\* the tenants as provisioned: each has its webhook secret, a courier token
\* and its settings; settings.autoPostExBooking is on for s1 and off for s2
SecretsDoc(sid) ==
  [ store_id |-> sid,
    SHOPIFY_WEBHOOK_SECRET |-> <<"whsec", sid>>,
    POSTEX_API_TOKEN |-> <<"postex", sid>>,
    settings |-> [autoPostExBooking |-> (sid = "s1")] ]

\* index/{shopUsername} -> { storeId }
dbGetIndex(key) ==
  IF key = <<"shop1", "">> THEN [storeId |-> "s1"]
  ELSE IF key = <<"shop2", "">> THEN [storeId |-> "s2"]
  ELSE Null

InitStore ==
  /\ orders = <<>>
  /\ secrets = [sid \in StoreIds |-> SecretsDoc(sid)]
  /\ now = 1
  /\ nEvents = 0
  /\ procs = [h \in Slots |-> Idle]
  /\ outbox = <<>>

Init == InitStore /\ mode = "serial"

\* Date.now() moves on between any two steps
Tick ==
  /\ now < MaxTime
  /\ now' = now + 1
  /\ UNCHANGED <<orders, secrets, nEvents, mode, procs, outbox>>

\* a step of slot h that ends in the local state p
Step(h, p) == procs' = [procs EXCEPT ![h] = p]

\* the effect put ahead of those made before it
LogAhead(p, op, arg) == [p EXCEPT !.log = <<Eff(op, arg)>> \o @]

Log(p, op, arg) == [p EXCEPT !.log = Append(@, Eff(op, arg))]

Goto(p, pc) == [p EXCEPT !.pc = pc]

\* the invocation returns ("done") or throws ("failed"): its local variables
\* are gone; what stays is the log of what it did
End(p, pc) == [kind |-> p.kind, pc |-> pc, log |-> p.log]

\* sendWhatsAppTemplate: without a phone or a template name nothing is sent;
\* a failed send is caught and logged inside it
sendWhatsAppTemplate(p, phone, templateName) ==
  IF phone = NoPhone \/ templateName = "" THEN p
  ELSE Log(p, "send", templateName)

\* how often templateName has been sent about order oid of store sid
Sent(sid, oid, templateName) ==
  IF <<sid, oid, templateName>> \in DOMAIN outbox
    THEN outbox[<<sid, oid, templateName>>] ELSE 0

\* the axios.post of sendWhatsAppTemplate, as the WhatsApp API sees it
Post(phone, templateName, sid, oid) ==
  IF phone = NoPhone \/ templateName = "" THEN UNCHANGED outbox
  ELSE outbox' = (<<sid, oid, templateName>> :> (Sent(sid, oid, templateName) + 1)) @@ outbox

(* ------------------------- button payloads ----------------------------- *)

\* a string is a sequence of pieces: a ":" or a value that holds no ":"
Colon == [sep |-> TRUE]
Piece(v) == [sep |-> FALSE, v |-> v]

\* `${action}:${storeId}:${orderId}` (the action may be the empty string)
Payload(action, storeId, orderId) ==
  (IF action = "" THEN <<>> ELSE <<Piece(action)>>)
    \o <<Colon, Piece(storeId), Colon, Piece(orderId)>>

\* payload.split(":")
RECURSIVE Split(_)
Split(s) ==
  IF s = <<>> THEN << <<>> >>
  ELSE LET rest == Split(Tail(s)) IN
    IF Head(s).sep THEN << <<>> >> \o rest
    ELSE << <<Head(s)>> \o rest[1] >> \o Tail(rest)

\* element i of const [action, storeId, orderId] = payload.split(":"):
\* undefined past the end; "" for an empty field
Field(parts, i) ==
  IF i > Len(parts) THEN Undefined
  ELSE IF parts[i] = <<>> THEN ""
  ELSE parts[i][1].v

(* ---------------- POST /webhook/shopify/order (order created) ---------- *)

\* String.prototype.toLowerCase on the pieces of a domain name
ToLower(w) ==
  IF w = "SHOP1" THEN "shop1"
  ELSE IF w = "SHOP2" THEN "shop2"
  ELSE IF w \in {".MYSHOPIFY.COM", ".MyShopify.com"} THEN ".myshopify.com"
  ELSE w

\* a domain is <<name, suffix>>;
\* shopDomain.replace(".myshopify.com", "").toLowerCase()
ShopUsername(d) ==
  <<ToLower(d[1]), IF d[2] = ".myshopify.com" THEN "" ELSE ToLower(d[2])>>

\* a Firebase path may not contain "."
ValidKey(key) == key[2] = ""

Domains ==
  { <<"shop1", ".myshopify.com">>, <<"shop2", ".myshopify.com">>,
    <<"other", ".myshopify.com">> }

\* the layouts one JSON value can be serialized in (key order, whitespace)
Layouts == {"compact", "spaced"}

\* the bytes of a request body: the JSON value order written in layout l
Serialize(order, l) == [layout |-> l, json |-> order]

\* JSON.parse(req.body.toString())
JSONParse(buf) == buf.json

\* crypto.createHmac("sha256", key).update(buf).digest("base64"): distinct
\* (key, body) pairs have distinct digests
Hmac(key, buf) == <<key, buf>>

\* the check made on the parsed body serialized again, which accepts a
\* signature over any layout of the same JSON value
verifyReserialized(webhook, hmacHeader, buf) ==
  \E l \in Layouts : hmacHeader = Hmac(webhook, Serialize(JSONParse(buf), l))

verifyShopify(webhook, hmacHeader, buf) == hmacHeader = Hmac(webhook, buf)

\* a || b on two strings
OrElse(a, b) == IF a # <<>> THEN a ELSE b

\* the orders of order-created requests: the order id, and the phones of
\* shipping_address and customer
OrderBodies ==
  { [id |-> i, shipping_phone |-> ph[1], customer_phone |-> ph[2]] :
      i \in OrderIds,
      ph \in { <<<<0, 3>>, <<>>>>, <<<<>>, <<4>>>>, <<<<NonDigit>>, <<0, 3>>>> } }

\* the requests: the signature header was computed under the secret of some
\* tenant over the order in some layout; the body holds it in compact layout
OrderRequests ==
  { [domain |-> d, hmac |-> Hmac(<<"whsec", k>>, Serialize(b, l)),
     body |-> Serialize(b, "compact")] :
      d \in Domains, k \in StoreIds, b \in OrderBodies, l \in Layouts }

\* the document written with whatsapp.confirmation_sent left false
UnflaggedOrderDoc(id, phone, t) ==
  [ order_id |-> id,
    customer |-> [phone |-> phone],
    status |-> "pending",
    timeline |-> [ createdAt |-> t, confirmedAt |-> Waiting,
                   fulfilledAt |-> Waiting, deliveredAt |-> Waiting,
                   lastMsgSentAt |-> t ],
    whatsapp |-> [ confirmation_sent |-> FALSE, fulfilled_sent |-> FALSE,
                   confirmation_reply |-> FALSE ] ]

\* the document dbSet writes for a new order
NewOrderDoc(id, phone, t) ==
  [ order_id |-> id,
    customer |-> [phone |-> phone],
    status |-> "pending",
    timeline |-> [ createdAt |-> t, confirmedAt |-> Waiting,
                   fulfilledAt |-> Waiting, deliveredAt |-> Waiting,
                   lastMsgSentAt |-> t ],
    whatsapp |-> [ confirmation_sent |-> TRUE, fulfilled_sent |-> FALSE,
                   confirmation_reply |-> FALSE ] ]

\* res.sendStatus(200), then the domain is reduced to the index key
StartOrder(h, req) ==
  /\ MayStart(h)
  /\ nEvents' = nEvents + 1
  /\ Step(h, [ kind |-> "order", pc |-> "o_index", req |-> req,
               shopUsername |-> ShopUsername(req.domain),
               log |-> <<Eff("ack", "200")>> ])
  /\ UNCHANGED <<orders, secrets, now, mode, outbox>>

\* await dbGet(`index/${shopUsername}`); if (!index?.storeId) return
OrderIndex(h) ==
  LET p == procs[h] IN
  /\ p.kind = "order" /\ p.pc = "o_index"
  /\ IF ~ValidKey(p.shopUsername) THEN Step(h, End(p, "failed"))
     ELSE LET index == dbGetIndex(p.shopUsername)
              q == Log(p, "read", "index") IN
       IF index = Null THEN Step(h, End(q, "done"))
       ELSE Step(h, Goto(q, "o_secrets") @@ [storeId |-> index.storeId])
  /\ UNCHANGED <<orders, secrets, now, nEvents, mode, outbox>>

\* await dbGet(secrets); the signature check; JSON.parse; normalizePhone.
\* The log notes which of the two returns ended the handler.
OrderSecrets(h) ==
  LET p == procs[h]
      store == dbGetSecrets(p.storeId)
      q == Log(p, "read", "secrets")
      order == JSONParse(p.req.body)
      phone == normalizePhone(OrElse(order.shipping_phone, order.customer_phone),
                              DEFAULT_COUNTRY_CODE) IN
  /\ p.kind = "order" /\ p.pc = "o_secrets"
  /\ IF store = Null THEN Step(h, End(q, "done"))
     ELSE IF ~verifyShopify(store.SHOPIFY_WEBHOOK_SECRET, p.req.hmac, p.req.body)
       THEN Step(h, End(Log(q, "return", "signature"), "done"))
     ELSE IF phone = NoPhone THEN Step(h, End(Log(q, "return", "phone"), "done"))
     ELSE Step(h, Goto(q, "o_set") @@ [phone |-> phone, order |-> order])
  /\ UNCHANGED <<orders, secrets, now, nEvents, mode, outbox>>

\* await dbSet(storeRef(`orders/${order.id}`), {...})
OrderSet(h) ==
  LET p == procs[h] IN
  /\ p.kind = "order" /\ p.pc = "o_set"
  /\ dbSetOrder(p.storeId, p.order.id, NewOrderDoc(p.order.id, p.phone, now))
  /\ Step(h, Goto(Log(p, "write", "order"), "o_send"))
  /\ UNCHANGED <<secrets, now, nEvents, mode, outbox>>

\* await sendWhatsAppTemplate(phone, "order_confirmation", [...],
\*                            [payloadConfirm, payloadCancel])
OrderSend(h) ==
  LET p == procs[h] IN
  /\ p.kind = "order" /\ p.pc = "o_send"
  /\ Step(h, End(sendWhatsAppTemplate(p, p.phone, TPL_ORDER_CONFIRMATION), "done")
               @@ [quickReply |-> << Payload(CONFIRM_ORDER, p.storeId, p.order.id),
                                     Payload(CANCEL_ORDER, p.storeId, p.order.id) >>])
  /\ UNCHANGED <<orders, secrets, now, nEvents, mode>>
  /\ Post(procs[h].phone, TPL_ORDER_CONFIRMATION, procs[h].storeId, procs[h].order.id)

(* ---------------------- the fallback lookup by phone ------------------- *)

\* the keys of stores/*/orders/* in the order for ... in visits them: the
\* stores in key order, and the (integer) order ids ascending in each
IterStores == StoreOrder \o <<Undefined>>
KeySeq ==
  [ i \in 1..(Len(IterStores) * Len(OrderOrder)) |->
      << IterStores[((i - 1) \div Len(OrderOrder)) + 1],
         OrderOrder[((i - 1) % Len(OrderOrder)) + 1] >> ]

\* order.timeline?.lastMsgSentAt || order.timeline?.createdAt || 0
OrderTime(order) ==
  IF ~Has(order, "timeline") THEN 0
  ELSE IF Has(order.timeline, "lastMsgSentAt") /\ order.timeline.lastMsgSentAt # 0
    THEN order.timeline.lastMsgSentAt
  ELSE IF Has(order.timeline, "createdAt") /\ order.timeline.createdAt # 0
    THEN order.timeline.createdAt
  ELSE 0

\* order.customer?.phone === phone
PhoneMatches(order, phone) ==
  Has(order, "customer") /\ Has(order.customer, "phone") /\ order.customer.phone = phone

\* the comparison with >= in place of >: among orders with equal times the
\* last one visited would win
LaterOrEqual(time, latestTime) == time >= latestTime

\* time > latestTime
Later(time, latestTime) == time > latestTime

\* the two nested loops, from key i on
RECURSIVE ScanOrders(_, _, _, _, _)
ScanOrders(stores, phone, i, latestMatch, latestTime) ==
  IF i > Len(KeySeq) THEN latestMatch
  ELSE LET k == KeySeq[i] IN
    IF /\ k \in DOMAIN stores
       /\ PhoneMatches(stores[k], phone)
       /\ Later(OrderTime(stores[k]), latestTime)
    THEN ScanOrders(stores, phone, i + 1,
                    [storeId |-> k[1], orderId |-> k[2], order |-> stores[k]],
                    OrderTime(stores[k]))
    ELSE ScanOrders(stores, phone, i + 1, latestMatch, latestTime)

findLatestStoreByPhone(stores, phone) == ScanOrders(stores, phone, 1, Null, 0)

(* ------------------ POST /webhook/whatsapp (customer reply) ------------ *)

\* the payloads of button replies: action:storeId:orderId ("" is an empty
\* first field)
ReplyActions == {CONFIRM_ORDER, CANCEL_ORDER, ""}

ReplyRequests ==
  { [msg |-> FALSE] }
  \cup { [msg |-> TRUE, from |-> f, button |-> FALSE] : f \in FromPhones }
  \cup { [msg |-> TRUE, from |-> f, button |-> TRUE,
          payload |-> Payload(a, sid, oid)] :
          f \in FromPhones, a \in ReplyActions, sid \in StoreIds, oid \in OrderIds }

\* what stays of a reply's invocation once it has ended: the log, and what
\* the reply was about
EndReply(p, pc) ==
  [ kind |-> "reply", pc |-> pc, log |-> p.log, action |-> p.action,
    storeId |-> p.storeId, orderId |-> p.orderId,
    was |-> IF p.order = Null THEN "none" ELSE p.order.status,
    tracking |-> p.tracking ]

\* res.sendStatus(200); the message is taken from the envelope, its sender
\* normalized and the button payload split
StartReply(h, req) ==
  LET phone == IF req.msg THEN normalizePhone(req.from, DEFAULT_COUNTRY_CODE) ELSE NoPhone
      isButton == req.msg /\ req.button
      parts == IF isButton THEN Split(req.payload) ELSE <<>>
      p == [ kind |-> "reply", pc |-> "r_getOrder",
             log |-> <<Eff("ack", "200")>>, phone |-> phone,
             action |-> IF isButton THEN Field(parts, 1) ELSE "",
             storeId |-> IF isButton THEN Field(parts, 2) ELSE Undefined,
             orderId |-> IF isButton THEN Field(parts, 3) ELSE 0,
             order |-> Null, store |-> Null, tracking |-> "none" ] IN
  /\ MayStart(h)
  /\ nEvents' = nEvents + 1
  /\ IF ~req.msg \/ phone = NoPhone THEN Step(h, EndReply(p, "done"))
     ELSE IF isButton THEN Step(h, p)
     ELSE Step(h, Goto(p, "r_fallback"))
  /\ UNCHANGED <<orders, secrets, now, mode, outbox>>

\* order = await dbGet(storeRef(`orders/${orderId}`))
ReplyGetOrder(h) ==
  LET p == procs[h]
      order == dbGetOrder(p.storeId, p.orderId)
      q == Log(p, "read", "order") IN
  /\ p.kind = "reply" /\ p.pc = "r_getOrder"
  /\ IF order = Null THEN Step(h, Goto(q, "r_fallback"))
     ELSE Step(h, [Goto(q, "r_getSecrets") EXCEPT !.order = order])
  /\ UNCHANGED <<orders, secrets, now, nEvents, mode, outbox>>

\* latest = await findLatestStoreByPhone(phone); if (!latest) return;
\* order = latest.order; storeId = latest.storeId throws a TypeError, because
\* storeId is declared by const [action, storeId, orderId]
ReplyFallback(h) ==
  LET p == procs[h]
      latest == findLatestStoreByPhone(orders, p.phone)
      q == Log(p, "read", "stores") IN
  /\ p.kind = "reply" /\ p.pc = "r_fallback"
  /\ IF latest = Null THEN Step(h, EndReply(q, "done"))
     ELSE Step(h, EndReply([q EXCEPT !.order = latest.order], "failed"))
  /\ UNCHANGED <<orders, secrets, now, nEvents, mode, outbox>>

\* store = await dbGet(storeRef(`secrets`)); if (!store) return
ReplyGetSecrets(h) ==
  LET p == procs[h]
      store == dbGetSecrets(p.storeId)
      q == Log(p, "read", "secrets") IN
  /\ p.kind = "reply" /\ p.pc = "r_getSecrets"
  /\ IF store = Null THEN Step(h, EndReply(q, "done"))
     ELSE IF p.action \in {CONFIRM_ORDER, CANCEL_ORDER}
       THEN Step(h, [Goto(q, "r_note") EXCEPT !.store = store])
     ELSE Step(h, [Goto(q, "r_send") EXCEPT !.store = store])
  /\ UNCHANGED <<orders, secrets, now, nEvents, mode, outbox>>

\* createPostExOrderIfAllowed, up to its first await
BookingAllowed(store) ==
  /\ Has(store, "POSTEX_API_TOKEN")
  /\ Has(store, "settings") /\ store.settings.autoPostExBooking

\* await updateShopifyOrderNote(orderId, shop, access, "Order Confirmed" /
\* "Order Cancelled"): the fetch resolves, or rejects and the handler throws
ReplyNote(h, ok) ==
  LET p == procs[h]
      q == Log(p, "note", IF p.action = CONFIRM_ORDER THEN "confirmed" ELSE "cancelled") IN
  /\ p.kind = "reply" /\ p.pc = "r_note"
  /\ IF ~ok THEN Step(h, EndReply(p, "failed"))
     ELSE IF p.action = CONFIRM_ORDER /\ BookingAllowed(p.store)
       THEN Step(h, Goto(q, "r_book"))
     ELSE Step(h, Goto(q, "r_send"))
  /\ UNCHANGED <<orders, secrets, now, nEvents, mode, outbox>>

\* trackingNumber = await createPostExOrder(order, store): the courier
\* answers with a tracking number, or the call fails and null is returned
ReplyBook(h, trackingNumber) ==
  LET p == procs[h]
      q == Log(p, "book", trackingNumber) IN
  /\ p.kind = "reply" /\ p.pc = "r_book"
  /\ IF trackingNumber = "none" THEN Step(h, Goto(q, "r_send"))
     ELSE Step(h, [Goto(q, "r_bookNote") EXCEPT !.tracking = trackingNumber])
  /\ UNCHANGED <<orders, secrets, now, nEvents, mode, outbox>>

\* await updateShopifyOrderNote(..., "Order booked on PostEx, Tracking #")
ReplyBookNote(h, ok) ==
  LET p == procs[h] IN
  /\ p.kind = "reply" /\ p.pc = "r_bookNote"
  /\ IF ~ok THEN Step(h, EndReply(p, "failed"))
     ELSE Step(h, Goto(Log(p, "note", "booked"), "r_bookWrite"))
  /\ UNCHANGED <<orders, secrets, now, nEvents, mode, outbox>>

\* the update createPostExOrderIfAllowed writes after a booking
BookingPatch(trackingNumber, t) ==
  << << <<"postex">>, [trackingNumber |-> trackingNumber, bookedAt |-> t,
                       status |-> "Booked"] >>,
     << <<"status">>, "fulfilled" >> >>

\* await dbUpdate(`stores/${store.store_id}/orders/${order.order_id}`, ...)
ReplyBookWrite(h) ==
  LET p == procs[h] IN
  /\ p.kind = "reply" /\ p.pc = "r_bookWrite"
  /\ dbUpdateOrder(IF Has(p.store, "store_id") THEN p.store.store_id ELSE Undefined,
                   p.order.order_id, BookingPatch(p.tracking, now))
  /\ Step(h, Goto(Log(p, "write", "booking"), "r_send"))
  /\ UNCHANGED <<secrets, now, nEvents, mode, outbox>>

\* templateName as the if / else if on action leaves it
ReplyTemplate(action) ==
  IF action = CONFIRM_ORDER THEN TPL_ORDER_CONFIRMED_REPLY
  ELSE IF action = CANCEL_ORDER THEN TPL_ORDER_CANCELLED_REPLY_AUTO
  ELSE ""

\* await sendWhatsAppTemplate(phone, templateName, ...)
ReplySend(h) ==
  LET p == procs[h] IN
  /\ p.kind = "reply" /\ p.pc = "r_send"
  /\ Step(h, Goto(sendWhatsAppTemplate(p, p.phone, ReplyTemplate(p.action)), "r_update"))
  /\ UNCHANGED <<orders, secrets, now, nEvents, mode>>
  /\ Post(procs[h].phone, ReplyTemplate(procs[h].action), procs[h].storeId, procs[h].orderId)

\* the status written without regard to the action: the status read earlier
StaleReplyStatus(action, order) == order.status

\* the status the reply's update writes
ReplyStatus(action, order) ==
  IF action = CONFIRM_ORDER THEN "confirmed"
  ELSE IF action = CANCEL_ORDER THEN "cancelled"
  ELSE order.status

\* the update object of the reply handler
ReplyPatch(action, order, t) ==
  << << <<"status">>, ReplyStatus(action, order) >>,
     << <<"timeline", "lastCustomerReplyAt">>, t >> >>
  \o (IF action = CONFIRM_ORDER
        THEN << << <<"timeline", "confirmedAt">>, t >>,
                << <<"timeline", "lastMsgSentAt">>, t >> >>
        ELSE <<>>)
  \o (IF action = CANCEL_ORDER
        THEN << << <<"timeline", "cancelledAt">>, t >>,
                << <<"timeline", "lastMsgSentAt">>, t >> >>
        ELSE <<>>)
  \o << << <<"whatsapp">>, [confirmation_sent |-> TRUE, confirmation_reply |-> TRUE] >> >>

\* await dbUpdate(storeRef(`orders/${orderId}`), {...})
ReplyUpdate(h) ==
  LET p == procs[h] IN
  /\ p.kind = "reply" /\ p.pc = "r_update"
  /\ dbUpdateOrder(p.storeId, p.orderId, ReplyPatch(p.action, p.order, now))
  /\ Step(h, Goto(Log(p, "write", "order"), "r_callus"))
  /\ UNCHANGED <<secrets, now, nEvents, mode, outbox>>

\* !action || (action && order.status !== (action === CONFIRM ? "confirmed"
\*                                                             : "cancelled"))
SendsCallUs(action, order) ==
  \/ action = ""
  \/ order.status # (IF action = CONFIRM_ORDER THEN "confirmed" ELSE "cancelled")

\* the call_us_template send that ends the handler
ReplyCallUs(h) ==
  LET p == procs[h] IN
  /\ p.kind = "reply" /\ p.pc = "r_callus"
  /\ IF SendsCallUs(p.action, p.order)
       THEN Step(h, EndReply(sendWhatsAppTemplate(p, p.phone, TPL_CALL_US), "done"))
       ELSE Step(h, EndReply(p, "done"))
  /\ UNCHANGED <<orders, secrets, now, nEvents, mode>>
  /\ IF SendsCallUs(procs[h].action, procs[h].order)
       THEN Post(procs[h].phone, TPL_CALL_US, procs[h].storeId, procs[h].orderId)
       ELSE UNCHANGED outbox

(* ------------- POST /webhook/shopify/fulfillment (shipped) ------------- *)

FulfillmentRequests ==
  { [domain |-> d, id |-> i, fulfillment_status |-> st] :
      d \in Domains, i \in OrderIds, st \in {"fulfilled", "partial"} }

\* res.sendStatus(200), then the domain is reduced to the index key
StartFulfillment(h, req) ==
  /\ MayStart(h)
  /\ nEvents' = nEvents + 1
  /\ Step(h, [ kind |-> "fulfillment", pc |-> "f_index", req |-> req,
               shopUsername |-> ShopUsername(req.domain),
               log |-> <<Eff("ack", "200")>> ])
  /\ UNCHANGED <<orders, secrets, now, mode, outbox>>

\* await dbGet(`index/${shopUsername}`); if (!index?.storeId) return;
\* if (fulfillment.fulfillment_status !== "fulfilled") return
FulfillmentIndex(h) ==
  LET p == procs[h] IN
  /\ p.kind = "fulfillment" /\ p.pc = "f_index"
  /\ IF ~ValidKey(p.shopUsername) THEN Step(h, End(p, "failed"))
     ELSE LET index == dbGetIndex(p.shopUsername)
              q == Log(p, "read", "index") IN
       IF index = Null THEN Step(h, End(q, "done"))
       ELSE IF p.req.fulfillment_status # "fulfilled" THEN Step(h, End(q, "done"))
       ELSE Step(h, Goto(q, "f_getOrder")
                      @@ [storeId |-> index.storeId, orderId |-> p.req.id])
  /\ UNCHANGED <<orders, secrets, now, nEvents, mode, outbox>>

\* order = await dbGet(storeRef(`orders/${orderId}`));
\* if (!order?.customer?.phone) return
FulfillmentGetOrder(h) ==
  LET p == procs[h]
      order == dbGetOrder(p.storeId, p.orderId)
      q == Log(p, "read", "order") IN
  /\ p.kind = "fulfillment" /\ p.pc = "f_getOrder"
  /\ IF order = Null \/ ~Has(order, "customer") THEN Step(h, End(q, "done"))
     ELSE Step(h, Goto(q, "f_send") @@ [order |-> order])
  /\ UNCHANGED <<orders, secrets, now, nEvents, mode, outbox>>

\* await sendWhatsAppTemplate(order.customer.phone, "your_order_is_shipped_2025")
FulfillmentSend(h) ==
  LET p == procs[h] IN
  /\ p.kind = "fulfillment" /\ p.pc = "f_send"
  /\ Step(h, Goto(sendWhatsAppTemplate(p, p.order.customer.phone,
                                       TPL_YOUR_ORDER_IS_SHIPPED), "f_update"))
  /\ UNCHANGED <<orders, secrets, now, nEvents, mode>>
  /\ Post(procs[h].order.customer.phone, TPL_YOUR_ORDER_IS_SHIPPED, procs[h].storeId, procs[h].orderId)

\* the update object without its status key
FulfillmentPatchNoStatus(t) ==
  << << <<"timeline", "fulfilledAt">>, t >>,
     << <<"whatsapp", "fulfilled_sent">>, TRUE >>,
     << <<"timeline", "lastMsgSentAt">>, t >> >>

\* the update object of the fulfillment handler
FulfillmentPatch(t) ==
  << << <<"status">>, "fulfilled" >>,
     << <<"timeline", "fulfilledAt">>, t >>,
     << <<"whatsapp", "fulfilled_sent">>, TRUE >>,
     << <<"timeline", "lastMsgSentAt">>, t >> >>

\* await dbUpdate(storeRef(`orders/${orderId}`), {...})
FulfillmentUpdate(h) ==
  LET p == procs[h] IN
  /\ p.kind = "fulfillment" /\ p.pc = "f_update"
  /\ dbUpdateOrder(p.storeId, p.orderId, FulfillmentPatch(now))
  /\ Step(h, End(Log(p, "write", "order"), "done")
               @@ [storeId |-> p.storeId, orderId |-> p.orderId])
  /\ UNCHANGED <<secrets, now, nEvents, mode, outbox>>

(* ------------------- cron.schedule("*/5 * * * *") ---------------------- *)

\* what getPostExOrderStatus leaves in lastStatus: the last entry of the
\* courier's status history, or undefined when the query fails or is empty
CourierAnswers == CourierStatuses \cup {Undefined}

\* order.postex?.trackingNumber
TrackingOf(order) ==
  IF Has(order, "postex") /\ Has(order.postex, "trackingNumber")
    THEN order.postex.trackingNumber ELSE Undefined

\* order.postex?.lastStatus
LastStatusOf(order) ==
  IF Has(order, "postex") /\ Has(order.postex, "lastStatus")
    THEN order.postex.lastStatus ELSE Undefined

\* the first key from position i on whose order has a tracking number (the
\* others are skipped by continue); 0 when the loops are over
RECURSIVE NextTracked(_, _)
NextTracked(stores, i) ==
  IF i > Len(KeySeq) THEN 0
  ELSE IF KeySeq[i] \in DOMAIN stores /\ TrackingOf(stores[KeySeq[i]]) # Undefined THEN i
  ELSE NextTracked(stores, i + 1)

\* the cron tick: the callback is invoked
StartPoll(h) ==
  /\ MayStart(h)
  /\ nEvents' = nEvents + 1
  /\ Step(h, [kind |-> "poll", pc |-> "p_read", log |-> <<>>])
  /\ UNCHANGED <<orders, secrets, now, mode, outbox>>

\* stores = (await db.ref("stores").once("value")).val(); the loops run on
\* this snapshot
PollRead(h) ==
  LET p == procs[h]
      q == Log(p, "read", "stores") IN
  /\ p.kind = "poll" /\ p.pc = "p_read"
  /\ IF NextTracked(orders, 1) = 0 THEN Step(h, End(q, "done"))
     ELSE Step(h, Goto(q, "p_order") @@ [stores |-> orders, pos |-> NextTracked(orders, 1)])
  /\ UNCHANGED <<orders, secrets, now, nEvents, mode, outbox>>

\* the template the sweep sends for a new courier status ("" for none)
PollTemplate(lastStatus) ==
  IF lastStatus = "Out For Delivery" THEN TPL_YOUR_ORDER_IS_SHIPPED
  ELSE IF lastStatus = "Delivered" THEN TPL_ORDER_DELIVERED
  ELSE ""

\* what the sweep writes for an order whose courier status has changed
PollPatch(lastStatus) == << << <<"postex", "lastStatus">>, lastStatus >> >>

\* one pass of the inner loop for the order at pos: the courier is queried,
\* and if its last status differs from the one in the snapshot it is written
\* to postex/lastStatus and the template for it is sent.  Firebase rejects
\* an update that holds undefined: the callback throws and the sweep ends.
PollOrder(h, lastStatus) ==
  LET p == procs[h]
      k == KeySeq[p.pos]
      order == p.stores[k]
      changed == lastStatus # LastStatusOf(order)
      q == Log(p, "query", TrackingOf(order))
      \* order.customer.phone is read for a template only; reading it of an
      \* order without a customer throws
      phone == IF Has(order, "customer") THEN order.customer.phone ELSE NoPhone
      throws == changed /\ (lastStatus = Undefined
                            \/ (PollTemplate(lastStatus) # "" /\ ~Has(order, "customer")))
      after == IF ~changed THEN q
               ELSE sendWhatsAppTemplate(Log(q, "write", "lastStatus"),
                                         phone, PollTemplate(lastStatus))
      next == NextTracked(p.stores, p.pos + 1) IN
  /\ p.kind = "poll" /\ p.pc = "p_order"
  /\ IF changed /\ lastStatus # Undefined
       THEN dbUpdateOrder(k[1], k[2], PollPatch(lastStatus))
       ELSE UNCHANGED orders
  /\ IF throws THEN Step(h, End(q, "failed"))
     ELSE IF next = 0 THEN Step(h, End(after, "done"))
     ELSE Step(h, [after EXCEPT !.pos = next])
  /\ UNCHANGED <<secrets, now, nEvents, mode>>
  /\ IF changed /\ ~throws
       THEN Post(phone, PollTemplate(lastStatus), k[1], k[2])
       ELSE UNCHANGED outbox

Next ==
  \/ Tick
  \/ \E h \in Slots, req \in OrderRequests : StartOrder(h, req)
  \/ \E h \in Slots : OrderIndex(h)
  \/ \E h \in Slots : OrderSecrets(h)
  \/ \E h \in Slots : OrderSet(h)
  \/ \E h \in Slots : OrderSend(h)
  \/ \E h \in Slots, req \in ReplyRequests : StartReply(h, req)
  \/ \E h \in Slots : ReplyGetOrder(h)
  \/ \E h \in Slots : ReplyFallback(h)
  \/ \E h \in Slots : ReplyGetSecrets(h)
  \/ \E h \in Slots, ok \in BOOLEAN : ReplyNote(h, ok)
  \/ \E h \in Slots, t \in Trackings \cup {"none"} : ReplyBook(h, t)
  \/ \E h \in Slots, ok \in BOOLEAN : ReplyBookNote(h, ok)
  \/ \E h \in Slots : ReplyBookWrite(h)
  \/ \E h \in Slots : ReplySend(h)
  \/ \E h \in Slots : ReplyUpdate(h)
  \/ \E h \in Slots : ReplyCallUs(h)
  \/ \E h \in Slots, req \in FulfillmentRequests : StartFulfillment(h, req)
  \/ \E h \in Slots : FulfillmentIndex(h)
  \/ \E h \in Slots : FulfillmentGetOrder(h)
  \/ \E h \in Slots : FulfillmentSend(h)
  \/ \E h \in Slots : FulfillmentUpdate(h)
  \/ \E h \in Slots : StartPoll(h)
  \/ \E h \in Slots : PollRead(h)
  \/ \E h \in Slots, st \in CourierAnswers : PollOrder(h, st)

\* requests arrive one at a time, each after the previous one has ended
Spec == Init /\ [][Next]_vars

\* requests and cron ticks may overlap, each in its own slot
InitConc == InitStore /\ mode = "concurrent"
ConcSpec == InitConc /\ [][Next]_vars

(* ------------------ tenants as the data model lists them --------------- *)

\* a secrets document holding what the data model lists for a tenant: the
\* signing key, the courier token and the settings, and no store_id
ListedSecretsDoc(sid) ==
  [f \in DOMAIN SecretsDoc(sid) \ {"store_id"} |-> SecretsDoc(sid)[f]]

\* each tenant's secrets carry a store_id equal to the tenant key, or the
\* listed fields only
InitProv ==
  /\ orders = <<>>
  /\ \E keyed \in [StoreIds -> BOOLEAN] :
       secrets = [sid \in StoreIds |->
                    IF keyed[sid] THEN SecretsDoc(sid) ELSE ListedSecretsDoc(sid)]
  /\ now = 1
  /\ nEvents = 0
  /\ procs = [h \in Slots |-> Idle]
  /\ outbox = <<>>
  /\ mode = "serial"

ProvSpec == InitProv /\ [][Next]_vars

(* ---------------------- domain resolution on its own ------------------- *)

\* the X-Shopify-Shop-Domain headers: a storefront name and the platform
\* suffix, each in some letter case
DomainInputs ==
  { <<name, suffix>> :
      name \in {"shop1", "SHOP1", "shop2", "SHOP2", "other"},
      suffix \in {".myshopify.com", ".MYSHOPIFY.COM", ".MyShopify.com"} }

\* two requests, each with its domain, about to be resolved
InitDomain ==
  /\ orders = <<>>
  /\ secrets = [sid \in StoreIds |-> SecretsDoc(sid)]
  /\ now = 1
  /\ nEvents = 0
  /\ outbox = <<>>
  /\ mode = "concurrent"
  /\ \E d \in [{1, 2} -> DomainInputs] :
       procs = [h \in Slots |->
                 IF h \in {1, 2}
                   THEN [kind |-> "resolve", pc |-> "d_key", log |-> <<>>,
                         domain |-> d[h]]
                   ELSE Idle]

\* shopUsername = shopDomain.replace(".myshopify.com", "").toLowerCase()
ResolveKey(h) ==
  LET p == procs[h] IN
  /\ p.kind = "resolve" /\ p.pc = "d_key"
  /\ Step(h, Goto(p, "d_index") @@ [shopUsername |-> ShopUsername(p.domain)])
  /\ UNCHANGED <<orders, secrets, now, nEvents, mode, outbox>>

\* index = await dbGet(`index/${shopUsername}`); if (!index?.storeId) return
ResolveIndex(h) ==
  LET p == procs[h] IN
  /\ p.kind = "resolve" /\ p.pc = "d_index"
  /\ IF ~ValidKey(p.shopUsername) THEN Step(h, Goto(p, "failed") @@ [index |-> Null])
     ELSE Step(h, Goto(p, "done") @@ [index |-> dbGetIndex(p.shopUsername)])
  /\ UNCHANGED <<orders, secrets, now, nEvents, mode, outbox>>

NextDomain ==
  \/ \E h \in Slots : ResolveKey(h)
  \/ \E h \in Slots : ResolveIndex(h)

DomainSpec == InitDomain /\ [][NextDomain]_vars

(* ----------------------- normalizePhone on its own --------------------- *)

\* the characters of the strings: digits (among them those of the country
\* code and the leading zero) and a character that is not a digit
PhoneChars == {0, 2, 4, 9, NonDigit}

\* the strings: a falsy raw (absent, null, "") is the empty string
PhoneInputs ==
  { prefix \o [i \in 1..n |-> 5] :
      prefix \in UNION { [1..m -> PhoneChars] : m \in 0..MaxPrefix },
      n \in 0..MaxPad }

\* the cc argument: the default, which every call site of the program
\* uses, and a one-digit code
CountryCodes == {DEFAULT_COUNTRY_CODE, <<4>>}

InitPhone ==
  /\ orders = <<>>
  /\ secrets = [sid \in StoreIds |-> SecretsDoc(sid)]
  /\ now = 1
  /\ nEvents = 0
  /\ outbox = <<>>
  /\ mode = "serial"
  /\ \E raw \in PhoneInputs, cc \in CountryCodes :
       procs = [h \in Slots |->
                 IF h = 1 THEN [kind |-> "normalize", pc |-> "n_call", log |-> <<>>,
                                raw |-> raw, cc |-> cc]
                 ELSE Idle]

\* phone = normalizePhone(raw, cc)
NormalizeCall(h) ==
  LET p == procs[h] IN
  /\ p.kind = "normalize" /\ p.pc = "n_call"
  /\ Step(h, Goto(p, "n_again") @@ [phone |-> normalizePhone(p.raw, p.cc)])
  /\ UNCHANGED <<orders, secrets, now, nEvents, mode, outbox>>

\* normalizePhone(phone, cc), on the result of the first call
NormalizeAgain(h) ==
  LET p == procs[h] IN
  /\ p.kind = "normalize" /\ p.pc = "n_again"
  /\ Step(h, Goto(p, "done") @@ [again |-> normalizePhone(p.phone, p.cc)])
  /\ UNCHANGED <<orders, secrets, now, nEvents, mode, outbox>>

NextPhone ==
  \/ \E h \in Slots : NormalizeCall(h)
  \/ \E h \in Slots : NormalizeAgain(h)

PhoneSpec == InitPhone /\ [][NextPhone]_vars

(* ------------- the sweep over stores that hold booked orders ----------- *)

\* a tenant provisioned with settings.autoPostExBooking on
BookingSecretsDoc(sid) ==
  [SecretsDoc(sid) EXCEPT !.settings = [autoPostExBooking |-> TRUE]]

\* the tracking number the courier gave the order of store sid
TrackingFor(sid) == IF sid = StoreOrder[1] THEN "TRK1" ELSE "TRK2"

\* the document of an order after the order-created webhook
CreatedDoc == NewOrderDoc(OrderOrder[1], <<9, 2, 3>>, 1)

\* ... after a CONFIRM reply whose booking the courier accepted
BookedDoc(sid) ==
  dbUpdate(dbUpdate(CreatedDoc, BookingPatch(TrackingFor(sid), 1)),
           ReplyPatch(CONFIRM_ORDER, CreatedDoc, 1))

\* ... and after a CANCEL reply that followed the booking
CancelledDoc(sid) ==
  dbUpdate(BookedDoc(sid), ReplyPatch(CANCEL_ORDER, BookedDoc(sid), 1))

StoredDoc(sid, stage) ==
  IF stage = "created" THEN CreatedDoc
  ELSE IF stage = "booked" THEN BookedDoc(sid)
  ELSE CancelledDoc(sid)

\* every tenant holds one order, at one of these stages, when the cron
\* ticks begin; ticks may fire while an earlier sweep is still awaiting
InitPoll ==
  /\ \E stage \in [StoreIds -> {"created", "booked", "cancelled"}] :
       orders = [k \in StoreIds \X OrderIds |-> StoredDoc(k[1], stage[k[1]])]
  /\ secrets = [sid \in StoreIds |-> BookingSecretsDoc(sid)]
  /\ now = 1
  /\ nEvents = 0
  /\ procs = [h \in Slots |-> Idle]
  /\ outbox = <<>>
  /\ mode = "concurrent"

NextPoll ==
  \/ \E h \in Slots : StartPoll(h)
  \/ \E h \in Slots : PollRead(h)
  \/ \E h \in Slots, st \in CourierAnswers : PollOrder(h, st)

PollSpec == InitPoll /\ [][NextPoll]_vars

(* ------------------------------ properties ----------------------------- *)

Keys == DOMAIN orders

StatusOf(k) == orders[k].status

\* timeline.confirmedAt / cancelledAt hold a timestamp
ConfirmedAtSet(order) == order.timeline.confirmedAt # Waiting
CancelledAtSet(order) == Has(order.timeline, "cancelledAt")

\* the normalized phones the inputs produce
NormalPhones ==
  { normalizePhone(r, DEFAULT_COUNTRY_CODE) : r \in RawPhones \cup FromPhones } \ {NoPhone}

\* a reply invocation in progress that has matched an order
ReplyAt(p) == p.kind = "reply" /\ ~Ended(p) /\ p.order # Null

\* C1: once an order's status is cancelled or delivered, no step changes it.
C1_TerminalAbsorbing ==
  [][\A k \in Keys :
       StatusOf(k) \in {"cancelled", "delivered"}
         => k \in DOMAIN orders' /\ orders'[k].status = StatusOf(k)]_vars

\* C2: once an order's status has left pending, no step sets it back to
\* pending.
C2_NoReentryToPending ==
  [][\A k \in Keys :
       StatusOf(k) # "pending"
         => k \in DOMAIN orders' /\ orders'[k].status # "pending"]_vars

\* C3: the confirmation template is sent at most once per order, however
\* often the order-created event is delivered.
C3_ConfirmationSentOnce ==
  \A sid \in StoreIds, oid \in OrderIds : Sent(sid, oid, TPL_ORDER_CONFIRMATION) <= 1

\* C4: a CONFIRM reply for an order that is already confirmed updates no
\* platform note, books no courier, does not send the confirmation-reply
\* template, leaves timeline.confirmedAt as it was, and ends having sent the
\* status-restatement template.
C4_RepeatedConfirmRestates ==
  [][\A h \in Slots :
       LET p == procs[h]
           q == procs'[h]
           k == <<p.storeId, p.orderId>> IN
       (ReplyAt(p) /\ p.action = CONFIRM_ORDER /\ p.order.status = "confirmed")
         => /\ \A i \in 1..Len(q.log) : q.log[i].op \notin {"note", "book"}
            /\ ~Did(q, "send", TPL_ORDER_CONFIRMED_REPLY)
            /\ orders'[k].timeline.confirmedAt = orders[k].timeline.confirmedAt
            /\ q.pc = "done" => Did(q, "send", TPL_CALL_US)]_vars

\* C5: no order has both timeline.confirmedAt and timeline.cancelledAt set.
C5_ConfirmedXorCancelled ==
  \A k \in Keys : ~(ConfirmedAtSet(orders[k]) /\ CancelledAtSet(orders[k]))

\* C6: while a reply is processed for an order that already has a tracking
\* number, the courier is not asked to book again and the stored tracking
\* number does not change.
C6_BookedAtMostOnce ==
  [][\A h \in Slots :
       LET p == procs[h]
           k == <<p.storeId, p.orderId>> IN
       (ReplyAt(p) /\ k \in Keys /\ TrackingOf(orders[k]) # Undefined)
         => /\ procs'[h].pc # "r_book"
            /\ TrackingOf(orders'[k]) = TrackingOf(orders[k])]_vars

Matching(phone) == {k \in Keys : PhoneMatches(orders[k], phone)}

\* the place of key k in the iteration order
KeyIndex(k) == CHOOSE i \in 1..Len(KeySeq) : KeySeq[i] = k

LastMsgSentAt(k) == orders[k].timeline.lastMsgSentAt
CreatedAt(k) == orders[k].timeline.createdAt

\* C8 (as claimed): the fallback lookup returns the matching order with the
\* largest timeline.lastMsgSentAt, and of those with equal lastMsgSentAt the
\* one with the larger createdAt, whatever the iteration order.
C8_LatestTiesByCreatedAt ==
  \A phone \in NormalPhones :
    LET latest == findLatestStoreByPhone(orders, phone)
        r == <<latest.storeId, latest.orderId>> IN
    Matching(phone) # {}
      => /\ latest # Null
         /\ r \in Matching(phone)
         /\ \A k \in Matching(phone) :
              \/ LastMsgSentAt(r) > LastMsgSentAt(k)
              \/ LastMsgSentAt(r) = LastMsgSentAt(k) /\ CreatedAt(r) >= CreatedAt(k)

\* C8 (amended): the fallback lookup returns the matching order with the
\* largest timeline.lastMsgSentAt, and of those with equal lastMsgSentAt the
\* one that comes first in the iteration order of stores and orders; it
\* returns null exactly when no stored order has the phone.
C8_LatestTiesByIteration ==
  \A phone \in NormalPhones :
    LET latest == findLatestStoreByPhone(orders, phone)
        r == <<latest.storeId, latest.orderId>> IN
    /\ Matching(phone) = {} => latest = Null
    /\ Matching(phone) # {}
         => /\ latest # Null
            /\ r \in Matching(phone)
            /\ latest.order = orders[r]
            /\ \A k \in Matching(phone) :
                 \/ LastMsgSentAt(r) > LastMsgSentAt(k)
                 \/ LastMsgSentAt(r) = LastMsgSentAt(k) /\ KeyIndex(r) <= KeyIndex(k)

\* a reply has gone through the fallback lookup and matched an order, while
\* two tenants hold an order for the same phone with different lastMsgSentAt
C8_Witness ==
  /\ \E h \in Slots :
       /\ procs[h].kind = "reply" /\ Ended(procs[h])
       /\ Did(procs[h], "read", "stores") /\ procs[h].was # "none"
  /\ \E phone \in NormalPhones : \E k1, k2 \in Matching(phone) :
       /\ k1[1] # k2[1]
       /\ LastMsgSentAt(k1) # LastMsgSentAt(k2)
       /\ findLatestStoreByPhone(orders, phone) # Null

\* C9: a reply that is matched to an order through the fallback lookup is
\* processed to its end, and the status-restatement template is sent.
C9_FallbackCompletes ==
  \A h \in Slots :
    LET p == procs[h] IN
    (/\ p.kind = "reply" /\ Ended(p)
     /\ Did(p, "read", "stores") /\ p.was # "none")
      => p.pc = "done" /\ Did(p, "send", TPL_CALL_US)

\* C10: when the sweep records a new courier status "Delivered" for an order,
\* the order's status becomes delivered, and when it records "Out For
\* Delivery", the status becomes out_for_delivery.
C10_PollerAdvancesStatus ==
  [][\A k \in Keys :
       /\ (LastStatusOf(orders'[k]) = "Delivered" /\ LastStatusOf(orders[k]) # "Delivered")
            => orders'[k].status = "delivered"
       /\ (LastStatusOf(orders'[k]) = "Out For Delivery"
             /\ LastStatusOf(orders[k]) # "Out For Delivery")
            => orders'[k].status = "out_for_delivery"]_vars

(* ------------------------- the sweep (C11, C12, C19, C20) -------------- *)

\* a sweep that has been started and has not ended
Sweeping(h) == procs[h].kind = "poll" /\ ~Ended(procs[h])

\* the stored orders that have a tracking number
Tracked == {k \in Keys : TrackingOf(orders[k]) # Undefined}

\* C11: the delivered template is sent about an order only by a step that
\* finds the stored courier status of that order different from "Delivered",
\* so once for each change to "Delivered", also when two sweeps overlap.
C11_DeliveredSentOncePerChange ==
  [][\A k \in Keys :
       Sent(k[1], k[2], TPL_ORDER_DELIVERED)' > Sent(k[1], k[2], TPL_ORDER_DELIVERED)
         => LastStatusOf(orders[k]) # "Delivered"]_vars

\* C12: a sweep that has ended, normally or by an error, has queried the
\* courier about every stored order that has a tracking number.
C12_SweepCoversEveryOrder ==
  \A h \in Slots :
    (procs[h].kind = "poll" /\ procs[h].pc \in {"done", "failed"})
      => \A k \in Tracked : Did(procs[h], "query", TrackingOf(orders[k]))

\* C19: at no time are two sweeps in progress.
C19_OneSweepAtATime == Cardinality({h \in Slots : Sweeping(h)}) <= 1

\* C20: for an order with a tracking number whose status is cancelled or
\* delivered, no step queries the courier about it, writes to it or sends
\* the shipped or delivered template about it.
C20_SweepSkipsTerminal ==
  [][\A k \in Tracked :
       StatusOf(k) \in {"cancelled", "delivered"}
         => /\ orders'[k] = orders[k]
            /\ \A t \in {TPL_YOUR_ORDER_IS_SHIPPED, TPL_ORDER_DELIVERED} :
                 Sent(k[1], k[2], t)' = Sent(k[1], k[2], t)
            /\ \A h \in Slots :
                 Sweeping(h) =>
                   Count(procs'[h], "query", TrackingOf(orders[k]))
                     = Count(procs[h], "query", TrackingOf(orders[k]))]_vars

(* --------------------- acknowledgment and rejection -------------------- *)

\* an invocation of one of the three webhook handlers, ended or not
Webhook(p) == p.kind \in {"order", "reply", "fulfillment"}

\* C13: the first effect of every webhook invocation is its 200
\* acknowledgment, sent once, before any store read, store write or outbound
\* call, whether the processing goes on, is dropped or fails.
C13_AckFirst ==
  \A h \in Slots :
    Webhook(procs[h])
      => /\ Len(procs[h].log) >= 1
         /\ procs[h].log[1] = Eff("ack", "200")
         /\ Count(procs[h], "ack", "200") = 1

\* a reply was acknowledged, read the store and then failed
C13_Witness ==
  \E h \in Slots :
    /\ procs[h].kind = "reply" /\ procs[h].pc = "failed"
    /\ procs[h].log[1] = Eff("ack", "200")
    /\ Did(procs[h], "read", "secrets")

\* the request's domain resolves to no tenant, or its signature header is
\* not the HMAC of its raw body under the tenant's webhook secret
Rejected(req) ==
  LET index == dbGetIndex(ShopUsername(req.domain)) IN
  \/ index = Null
  \/ req.hmac # Hmac(secrets[index.storeId].SHOPIFY_WEBHOOK_SECRET, req.body)

\* C14: while an order-created request that is rejected (unknown domain, or
\* a signature that is not the HMAC of the exact raw body under the tenant's
\* secret) is processed, no order document is created or changed and nothing
\* is sent.
C14_RejectedIsNoOp ==
  [][\A h \in Slots :
       LET p == procs[h] IN
       (p.kind = "order" /\ ~Ended(p) /\ Rejected(p.req))
         => /\ orders' = orders
            /\ outbox' = outbox
            /\ \A i \in 1..Len(procs'[h].log) :
                 procs'[h].log[i].op \notin {"write", "send"}]_vars

\* an order-created request has been dropped at the signature check
C14_Witness ==
  \E h \in Slots :
    /\ procs[h].kind = "order" /\ procs[h].pc = "done"
    /\ Did(procs[h], "return", "signature")
    /\ orders = <<>> /\ outbox = <<>>

(* --------------------------- normalizePhone ---------------------------- *)

\* null, or a string of digits
PhoneResult(r) == r = NoPhone \/ \A i \in 1..Len(r) : r[i] \in 0..9

\* C15: normalizePhone returns null or a digit string for every input, and
\* applied to its own result it returns that result.
C15_NormalizeIdempotent ==
  \A h \in Slots :
    LET p == procs[h] IN
    p.kind = "normalize"
      => /\ p.pc \in {"n_again", "done"} => PhoneResult(p.phone)
         /\ p.pc = "done" => PhoneResult(p.again) /\ p.again = p.phone

\* a string with a leading zero, a non-digit and more than ten digits has
\* been normalized twice, and the result differs from the string
C15_Witness ==
  \E h \in Slots :
    LET p == procs[h] IN
    /\ p.kind = "normalize" /\ p.pc = "done"
    /\ p.raw # <<>> /\ Head(p.raw) = 0
    /\ \E i \in 1..Len(p.raw) : p.raw[i] = NonDigit
    /\ Len(StripNonDigits(p.raw)) > 10
    /\ p.phone # NoPhone /\ p.phone # p.raw
    /\ p.again = p.phone

(* --------------------------- order creation ---------------------------- *)

\* the phone the order-created handler takes from the request, normalized
PhoneOf(req) ==
  normalizePhone(OrElse(JSONParse(req.body).shipping_phone,
                        JSONParse(req.body).customer_phone),
                 DEFAULT_COUNTRY_CODE)

\* a step of the order-created invocation in slot h, for a validly signed
\* request (needPhone: whose order also carries a phone):
\* - if it ends the invocation, the handler has returned normally, has written
\*   the order once and sent order_confirmation once; the document at
\*   (tenant, order id) is pending, holds the normalized phone and has
\*   confirmation_sent set; the two payloads split into CONFIRM / CANCEL and
\*   that same (tenant, order id);
\* - if it is the write, for an order id not yet stored, exactly that one
\*   document is added; and no step touches another document.
OrderCreatedStep(h, needPhone) ==
  LET p == procs[h]
      q == procs'[h]
      sid == dbGetIndex(ShopUsername(p.req.domain)).storeId
      oid == JSONParse(p.req.body).id
      k == <<sid, oid>>
      phone == PhoneOf(p.req) IN
  (/\ p.kind = "order" /\ ~Ended(p)
   /\ ~Rejected(p.req)
   /\ needPhone => phone # NoPhone)
    => /\ Ended(q) =>
            /\ q.pc = "done"
            /\ Count(q, "write", "order") = 1
            /\ Count(q, "send", TPL_ORDER_CONFIRMATION) = 1
            /\ <<sid, oid, TPL_ORDER_CONFIRMATION>> \in DOMAIN outbox'
            /\ outbox'[<<sid, oid, TPL_ORDER_CONFIRMATION>>]
                 = Sent(sid, oid, TPL_ORDER_CONFIRMATION) + 1
            /\ k \in DOMAIN orders'
            /\ orders'[k].status = "pending"
            /\ orders'[k].customer.phone = phone
            /\ phone # NoPhone /\ normalizePhone(phone, DEFAULT_COUNTRY_CODE) = phone
            /\ orders'[k].whatsapp.confirmation_sent
            /\ Len(q.quickReply) = 2
            /\ \A i \in 1..2 :
                 LET parts == Split(q.quickReply[i]) IN
                 /\ Len(parts) = 3
                 /\ Field(parts, 1) = <<CONFIRM_ORDER, CANCEL_ORDER>>[i]
                 /\ <<Field(parts, 2), Field(parts, 3)>> = k
       /\ (p.pc = "o_set" /\ q.pc = "o_send" /\ k \notin DOMAIN orders)
            => DOMAIN orders' = DOMAIN orders \cup {k}
       /\ \A j \in DOMAIN orders' :
            j # k => j \in DOMAIN orders /\ orders'[j] = orders[j]

\* C16 (as claimed): every validly signed order-created request creates the
\* pending order with the normalized phone and confirmation_sent set, and
\* sends one confirmation template whose payloads name that order.
C16_ValidOrderCreates ==
  [][\A h \in Slots : OrderCreatedStep(h, FALSE)]_vars

\* C16 (amended): every validly signed order-created request whose order
\* carries a phone (shipping_address.phone or customer.phone with at least
\* one digit) creates the pending order with the normalized phone and
\* confirmation_sent set, and sends one confirmation template whose payloads
\* name that order; a request without a phone creates nothing.
C16_ValidOrderWithPhoneCreates ==
  [][\A h \in Slots :
       /\ OrderCreatedStep(h, TRUE)
       /\ (/\ procs[h].kind = "order" /\ ~Ended(procs[h])
           /\ ~Rejected(procs[h].req) /\ PhoneOf(procs[h].req) = NoPhone)
            => orders' = orders /\ outbox' = outbox]_vars

\* the first request of a behaviour was a valid order-created request with a
\* phone: one document is stored and one confirmation was sent
C16_Witness ==
  \E h \in Slots, k \in StoreIds \X OrderIds :
    /\ nEvents = 1
    /\ procs[h].kind = "order" /\ procs[h].pc = "done"
    /\ Did(procs[h], "write", "order")
    /\ DOMAIN orders = {k}
    /\ orders[k].status = "pending"
    /\ Sent(k[1], k[2], TPL_ORDER_CONFIRMATION) = 1

(* ----------------------- failures of external calls -------------------- *)

\* C17: a CONFIRM or CANCEL reply for a pending order named by its payload,
\* once its processing has ended, has written the order's status, whichever
\* external call failed on the way.
C17_ReplyWritesStatusDespiteFailure ==
  \A h \in Slots :
    LET p == procs[h] IN
    (/\ p.kind = "reply" /\ p.pc \in {"done", "failed"}
     /\ p.action \in {CONFIRM_ORDER, CANCEL_ORDER}
     /\ p.was = "pending"
     /\ ~Did(p, "read", "stores"))
      => Did(p, "write", "order")

(* ---------------------------- fulfillment ------------------------------ *)

\* the stored order a fulfillment request is about: the tenant its domain
\* resolves to and its order id (Null when there is no such tenant or order)
FulfilledOrder(req) ==
  LET index == dbGetIndex(ShopUsername(req.domain)) IN
  IF index = Null THEN Null ELSE dbGetOrder(index.storeId, req.id)

\* C18: while a fulfillment report is processed whose fulfillment_status is
\* not "fulfilled", or whose order does not exist in the resolved tenant's
\* store, no order document changes and nothing is sent; a "fulfilled" report
\* for an existing order ends with the order's status fulfilled.
C18_OnlyFulfilledAdvances ==
  [][\A h \in Slots :
       LET p == procs[h]
           q == procs'[h]
           sid == dbGetIndex(ShopUsername(p.req.domain)).storeId IN
       (p.kind = "fulfillment" /\ ~Ended(p))
         => IF p.req.fulfillment_status # "fulfilled" \/ FulfilledOrder(p.req) = Null
              THEN /\ orders' = orders
                   /\ outbox' = outbox
                   /\ \A i \in 1..Len(q.log) : q.log[i].op \notin {"write", "send"}
              ELSE Ended(q)
                     => /\ q.pc = "done"
                        /\ Did(q, "write", "order")
                        /\ orders'[<<sid, p.req.id>>].status = "fulfilled"]_vars

\* a fulfillment report for an order its tenant does not hold has been
\* processed to its end, while another order is stored
C18_Witness ==
  \E h \in Slots :
    /\ procs[h].kind = "fulfillment" /\ procs[h].pc = "done"
    /\ Did(procs[h], "read", "order")
    /\ ~Did(procs[h], "write", "order")
    /\ orders # <<>>

(* ------------------------- interleaved handlers ------------------------ *)

\* C21: when a reply that read its order as pending, and booked no courier
\* itself, issues its update while the stored status is no longer pending,
\* the update leaves the stored status as it is.
C21_StaleReplyWriteIsNoOp ==
  [][\A h \in Slots :
       LET p == procs[h]
           k == <<p.storeId, p.orderId>> IN
       (/\ p.kind = "reply" /\ p.pc = "r_update"
        /\ procs'[h].pc # "r_update"
        /\ p.order.status = "pending" /\ p.tracking = "none"
        /\ k \in Keys /\ StatusOf(k) # "pending")
         => orders'[k].status = StatusOf(k)]_vars

(* ------------------------- flags and messages -------------------------- *)

\* whatsapp.fulfilled_sent of the stored order k is true
FulfilledSent(k) ==
  /\ Has(orders[k], "whatsapp")
  /\ Has(orders[k].whatsapp, "fulfilled_sent")
  /\ orders[k].whatsapp.fulfilled_sent

\* C22: the fulfillment handler sends no shipped template for an order whose
\* fulfilled_sent flag is already true.
C22_ShippedGatedByFlag ==
  [][\A h \in Slots :
       LET p == procs[h]
           k == <<p.storeId, p.orderId>> IN
       (/\ p.kind = "fulfillment" /\ p.pc = "f_send"
        /\ k \in Keys /\ FulfilledSent(k))
         => /\ outbox' = outbox
            /\ ~Did(procs'[h], "send", TPL_YOUR_ORDER_IS_SHIPPED)]_vars

\* C24: a CONFIRM or CANCEL reply for a pending order named by its payload,
\* processed to its end, has sent the reply template for its action and no
\* other message.
C24_FirstReplySendsOneMessage ==
  \A h \in Slots :
    LET p == procs[h] IN
    (/\ p.kind = "reply" /\ p.pc = "done"
     /\ p.action \in {CONFIRM_ORDER, CANCEL_ORDER}
     /\ p.was = "pending"
     /\ ~Did(p, "read", "stores"))
      => /\ Count(p, "send", ReplyTemplate(p.action)) = 1
         /\ Cardinality({i \in 1..Len(p.log) : p.log[i].op = "send"}) = 1

(* -------------------------- domain resolution -------------------------- *)

\* d and e are the same storefront name with the platform suffix, in any
\* letter case
SameStorefront(d, e) ==
  /\ ToLower(d[1]) = ToLower(e[1])
  /\ ToLower(d[2]) = ".myshopify.com"
  /\ ToLower(e[2]) = ".myshopify.com"

\* C23: two domains that are the same storefront name with the platform
\* suffix, in any letter case, are reduced to the same lookup key and resolve
\* to the same tenant.
C23_DomainCaseInsensitive ==
  \A g, h \in Slots :
    LET p == procs[g]
        q == procs[h] IN
    (/\ p.kind = "resolve" /\ p.pc \in {"done", "failed"}
     /\ q.kind = "resolve" /\ q.pc \in {"done", "failed"}
     /\ SameStorefront(p.domain, q.domain))
      => /\ p.shopUsername = q.shopUsername
         /\ p.pc = "done" /\ q.pc = "done"
         /\ p.index = q.index

(* ----------------------- what a reply leaves alone --------------------- *)

\* C26: the update of a reply leaves whatsapp.fulfilled_sent of the order,
\* its order_id and its customer as they were.
C26_ReplyKeepsFulfilledSent ==
  [][\A h \in Slots :
       LET p == procs[h]
           k == <<p.storeId, p.orderId>> IN
       (/\ p.kind = "reply" /\ p.pc = "r_update"
        /\ procs'[h].pc # "r_update"
        /\ k \in Keys
        /\ Has(orders[k].whatsapp, "fulfilled_sent"))
         => /\ Has(orders'[k].whatsapp, "fulfilled_sent")
            /\ orders'[k].whatsapp.fulfilled_sent = orders[k].whatsapp.fulfilled_sent
            /\ orders'[k].order_id = orders[k].order_id
            /\ orders'[k].customer = orders[k].customer]_vars


\* C25: a successful courier booking records the tracking number on the
\* order document the reply was matched to: the booking write goes to
\* tenants/{storeId}/orders/{orderId} of the reply being processed and leaves
\* every other document as it was, and every order document in the store
\* has a customer phone
HasCustomerPhone(doc) ==
  Has(doc, "customer") /\ Has(doc.customer, "phone")

C25_BookingWritesMatchedOrder ==
  [][/\ \A h \in Slots :
          LET p == procs[h]
              k == <<p.storeId, p.orderId>> IN
          (/\ p.kind = "reply" /\ p.pc = "r_bookWrite"
           /\ procs'[h].pc # "r_bookWrite")
            => /\ k \in DOMAIN orders'
               /\ Has(orders'[k], "postex")
               /\ orders'[k].postex.trackingNumber = p.tracking
               /\ \A j \in DOMAIN orders' \ {k} :
                    j \in DOMAIN orders /\ orders'[j] = orders[j]
     /\ \A k \in DOMAIN orders' : HasCustomerPhone(orders'[k])]_vars

====
